---- MODULE Spec2Model ----
(***************************************************************************)
(* A model of django_tables2/templatetags/django_tables2.py: the four      *)
(* template tags (set_url_param, querystring, render_table,                *)
(* smart_render_table), their compile functions and their render nodes.    *)
(*                                                                         *)
(* Texts are sequences of one-character strings, so that the argument      *)
(* parsing (split at '=', the kwarg_re match, tokenize) is computed on     *)
(* characters.  Python values are tagged records (see NoneV, StrV, IntV).    *)
(*                                                                         *)
(* Three specifications share the variables:                               *)
(*   SpecCompile  compiling one tag token        (token, compiled)         *)
(*   SpecUrl      rendering the query-string nodes against one request     *)
(*   SpecTable    rendering the table nodes                                *)
(***************************************************************************)
EXTENDS Integers, Sequences, FiniteSets

VARIABLES
    token,        \* the tag being compiled: [tag, args] (token.split_contents())
    compiled,     \* what compiling it gave: a node, or the exception raised
    request_GET,  \* request.GET of the current request: key -> list of texts
    GET0,         \* history: request.GET when the request arrived
    ctxRequest,   \* context's 'request' entry: "absent", "None" or "request"
    ctxVars,      \* the template context: variable name -> value
    last,         \* the last query-string render: [node, out, resolves]
    first,        \* history: the first render for this request: [node, out]
    debug,        \* settings.DEBUG
    table,        \* the Table object held by the context: [order_by, page, request]
    call,         \* the table render in progress or last finished
    pc            \* "idle", or "rendering" while template.render(context) runs

vars == <<token, compiled, request_GET, GET0, ctxRequest, ctxVars, last, first,
          debug, table, call, pc>>

compileVars == <<token, compiled>>
urlVars == <<request_GET, GET0, ctxRequest, ctxVars, last, first>>
tableVars == <<debug, table, call, pc>>

(***************************************************************************)
(* Bounds.                                                                 *)
(***************************************************************************)
\* arguments after the tag name of a set_url_param / querystring token
MaxArgs == 2
\* arguments after the tag name of a render_table / smart_render_table token
MaxTableArgs == 4
\* key=value pairs of a QuerystringNode that is rendered
MaxPairs == 2

(***************************************************************************)
(* Texts.                                                                  *)
(***************************************************************************)
Letters == {"a", "b"}
Digits == {"1"}
\* characters of [\w] in the alphabet used: what a template variable or a
\* number literal is made of
WordChars == Letters \cup Digits

SeqsUpTo(S, n) == UNION {[1..k -> S] : k \in 0..n}

IndexesOf(c, s) == {i \in 1..Len(s) : s[i] = c}

Min(S) == CHOOSE x \in S : \A y \in S : x <= y
Max(S) == CHOOSE x \in S : \A y \in S : x >= y

\* the texts a tag argument is made of: "key", "key=value" with these
\* keys and values (the empty key and the empty value included)
KeyTexts == {<<>>, <<"a">>, <<"b">>, <<"1">>, <<"(">>, <<"a", "(">>}
ValTexts == {<<>>, <<"a">>, <<"1">>, <<"=", "a">>}
ArgPool ==
    (KeyTexts \ {<<>>})
    \cup {k \o <<"=">> \o v : k \in KeyTexts, v \in ValTexts}
TableArgPool == {<<"a">>, <<"b">>, <<"(">>}

TemplateSyntaxError == "TemplateSyntaxError"
NoNode == [kind |-> "none"]
Raise(e) == [kind |-> "raise", exc |-> e]

(***************************************************************************)
(* parser.compile_filter(text): django.template.FilterExpression raises    *)
(* TemplateSyntaxError ("Could not parse the remainder") unless the text   *)
(* is a variable, a literal or a filter chain; of the characters used      *)
(* here only those of [\w] can be part of one.  The empty text compiles    *)
(* (to an expression with no variable, which resolves to None).            *)
(***************************************************************************)
compile_filter_ok(text) == \A i \in 1..Len(text) : text[i] \in WordChars

(***************************************************************************)
(* token_kwargs (lines 36-55) and the querystring tag (lines 128-149).     *)
(***************************************************************************)
\* kwarg_re = (?:(.+)=)?(.+) matched against one bit: both (.+) are greedy,
\* so group 1 ends at the LAST '=' that leaves one character or more on each
\* side; when there is none the optional group is skipped (group 1 is None)
kwarg_re_splits(bit) == {i \in IndexesOf("=", bit) : 1 < i /\ i < Len(bit)}

kwarg_re_match(bit) ==
    IF kwarg_re_splits(bit) = {}
    THEN [group1 |-> FALSE, key |-> <<>>, value |-> bit]
    ELSE LET i == Max(kwarg_re_splits(bit))
         IN  [group1 |-> TRUE,
              key |-> SubSeq(bit, 1, i - 1),
              value |-> SubSeq(bit, i + 1, Len(bit))]

\* the while loop of token_kwargs: the bits not consumed, the pairs compiled
\* so far (a SortedDict keyed by FilterExpression objects, which hash by
\* identity: one entry per argument, in insertion order) and the exception
\* compile_filter raised, if any
RECURSIVE token_kwargs_loop(_, _)
token_kwargs_loop(bits, kwargs) ==
    IF bits = <<>>
    THEN [bits |-> bits, kwargs |-> kwargs, exc |-> "none"]
    ELSE LET m == kwarg_re_match(Head(bits))
         IN  IF ~m.group1
             THEN [bits |-> bits, kwargs |-> kwargs, exc |-> "none"]
             ELSE IF compile_filter_ok(m.key) /\ compile_filter_ok(m.value)
             THEN token_kwargs_loop(Tail(bits), Append(kwargs, <<m.key, m.value>>))
             ELSE [bits |-> Tail(bits), kwargs |-> kwargs,
                   exc |-> TemplateSyntaxError]

token_kwargs(bits) == token_kwargs_loop(bits, <<>>)

\* querystring without the check of its finally clause
querystring_unchecked(args) ==
    LET r == token_kwargs(args)
    IN  IF r.exc # "none" THEN Raise(r.exc)
        ELSE [kind |-> "node", tag |-> "querystring", params |-> r.kwargs]

\* querystring(parser, token): the finally clause raises when bits are left,
\* otherwise the exception of token_kwargs (if any) goes on
querystring(args) ==
    LET r == token_kwargs(args)
    IN  IF r.bits # <<>> THEN Raise(TemplateSyntaxError)
        ELSE IF r.exc # "none" THEN Raise(r.exc)
        ELSE [kind |-> "node", tag |-> "querystring", params |-> r.kwargs]

(***************************************************************************)
(* The set_url_param tag (lines 76-107).                                   *)
(***************************************************************************)
\* tokenize.generate_tokens on the key, as list(...) consumes it: an opening
\* bracket that is never closed ends in TokenError ("EOF in multi-line
\* statement"); otherwise the type of the first token
tokenize_first(a) ==
    IF IndexesOf("(", a) # {} THEN "TokenError"
    ELSE IF a = <<>> THEN "ENDMARKER"
    ELSE IF a[1] \in Letters THEN "NAME"
    ELSE IF a[1] \in Digits THEN "NUMBER"
    ELSE "OP"

\* the except clause of line 104: ValueError and nothing else
except_ValueError(exc) == exc = "ValueError"

\* one argument of the for loop, lines 92-103: the exception raised inside
\* the try block ("none" when the argument was stored)
set_url_param_try(i) ==
    IF IndexesOf("=", i) = {} THEN "ValueError"          \* a, b = i.split('=', 1)
    ELSE LET a == SubSeq(i, 1, Min(IndexesOf("=", i)) - 1)
             b == SubSeq(i, Min(IndexesOf("=", i)) + 1, Len(i))
             t == tokenize_first(a)
         IN  IF t = "TokenError" THEN "TokenError"
             ELSE IF t # "NAME" THEN "ValueError"
             ELSE IF ~compile_filter_ok(b) THEN TemplateSyntaxError
             ELSE "none"

set_url_param_key(i) == SubSeq(i, 1, Min(IndexesOf("=", i)) - 1)
set_url_param_value(i) == SubSeq(i, Min(IndexesOf("=", i)) + 1, Len(i))

\* qschanges[str(a)] = b
DictSet(d, k, v) == [x \in DOMAIN d \cup {k} |-> IF x = k THEN v ELSE d[x]]
EmptyDict == [x \in {} |-> <<>>]

RECURSIVE set_url_param_loop(_, _)
set_url_param_loop(bits, qschanges) ==
    IF bits = <<>>
    THEN [kind |-> "node", tag |-> "set_url_param", changes |-> qschanges]
    ELSE LET e == set_url_param_try(Head(bits))
         IN  IF e = "none"
             THEN set_url_param_loop(Tail(bits),
                      DictSet(qschanges, set_url_param_key(Head(bits)),
                              set_url_param_value(Head(bits))))
             ELSE IF except_ValueError(e) THEN Raise(TemplateSyntaxError)
             ELSE Raise(e)

set_url_param(args) == set_url_param_loop(args, EmptyDict)

(***************************************************************************)
(* The render_table and smart_render_table tags (lines 249-282).           *)
(***************************************************************************)
\* bits.pop(0) on an empty list raises IndexError
pop0_exc(bits) == IF bits = <<>> THEN "IndexError" ELSE "none"

\* pop_arg / the conditional of line 256: <<>> for None, <<text>> for a
\* compiled expression
pop_arg(bits) == IF bits # <<>> THEN <<Head(bits)>> ELSE <<>>
pop_arg_exc(bits) ==
    IF bits # <<>> /\ ~compile_filter_ok(Head(bits))
    THEN TemplateSyntaxError ELSE "none"
Rest(bits) == IF bits # <<>> THEN Tail(bits) ELSE bits

\* lines 252-255: the tag name is popped, then the table; the handler is
\* for ValueError, and its message reads bits[0]
table_tag_head(args) ==
    LET e == pop0_exc(args)
    IN  IF e # "none"
        THEN IF except_ValueError(e)
             THEN (IF args = <<>> THEN "IndexError" ELSE TemplateSyntaxError)
             ELSE e
        ELSE pop_arg_exc(args)

render_table(args) ==
    IF table_tag_head(args) # "none" THEN Raise(table_tag_head(args))
    ELSE IF pop_arg_exc(Tail(args)) # "none" THEN Raise(pop_arg_exc(Tail(args)))
    ELSE [kind |-> "node", tag |-> "render_table",
          table |-> Head(args), template |-> pop_arg(Tail(args))]

smart_render_table(args) ==
    IF table_tag_head(args) # "none" THEN Raise(table_tag_head(args))
    ELSE LET b1 == Tail(args)
             b2 == Rest(b1)
             b3 == Rest(b2)
         IN  IF pop_arg_exc(b1) # "none" THEN Raise(pop_arg_exc(b1))
             ELSE IF pop_arg_exc(b2) # "none" THEN Raise(pop_arg_exc(b2))
             ELSE IF pop_arg_exc(b3) # "none" THEN Raise(pop_arg_exc(b3))
             ELSE [kind |-> "node", tag |-> "smart_render_table",
                   table_or_queryset |-> Head(args),
                   table_template |-> pop_arg(b1),
                   header_template |-> pop_arg(b2),
                   row_template |-> pop_arg(b3)]

(***************************************************************************)
(* Compiling one tag.                                                      *)
(***************************************************************************)
Tokens ==
    {[tag |-> t, args |-> a] :
        t \in {"set_url_param", "querystring"}, a \in SeqsUpTo(ArgPool, MaxArgs)}
    \cup
    {[tag |-> t, args |-> a] :
        t \in {"render_table", "smart_render_table"},
        a \in SeqsUpTo(TableArgPool, MaxTableArgs)}

CompileSetUrlParam ==
    /\ compiled = NoNode
    /\ token.tag = "set_url_param"
    /\ compiled' = set_url_param(token.args)
    /\ UNCHANGED <<token, urlVars, tableVars>>

CompileQuerystring ==
    /\ compiled = NoNode
    /\ token.tag = "querystring"
    /\ compiled' = querystring(token.args)
    /\ UNCHANGED <<token, urlVars, tableVars>>

CompileRenderTable ==
    /\ compiled = NoNode
    /\ token.tag = "render_table"
    /\ compiled' = render_table(token.args)
    /\ UNCHANGED <<token, urlVars, tableVars>>

CompileSmartRenderTable ==
    /\ compiled = NoNode
    /\ token.tag = "smart_render_table"
    /\ compiled' = smart_render_table(token.args)
    /\ UNCHANGED <<token, urlVars, tableVars>>

(***************************************************************************)
(* Python values and dictionaries.                                         *)
(***************************************************************************)
NoneV == [t |-> "none"]
StrV(s) == [t |-> "str", s |-> s]
IntV(n) == [t |-> "int", n |-> n]
\* a list of texts, the value QueryDict keeps for each key
ListV(l) == [t |-> "list", l |-> l]

DigitChars == <<"0", "1", "2", "3", "4", "5", "6", "7", "8", "9">>
RECURSIVE IntText(_)
IntText(n) == IF n < 10 THEN <<DigitChars[n + 1]>>
              ELSE IntText(n \div 10) \o <<DigitChars[(n % 10) + 1]>>
RECURSIVE TextInt(_)
TextInt(s) == IF s = <<>> THEN 0
              ELSE 10 * TextInt(SubSeq(s, 1, Len(s) - 1))
                   + (CHOOSE d \in 0..9 : DigitChars[d + 1] = s[Len(s)])

\* unicode(value) / smart_str(value)
unicode(v) ==
    IF v.t = "str" THEN v.s
    ELSE IF v.t = "int" THEN IntText(v.n)
    ELSE <<"N", "o", "n", "e">>

\* a pop that removes nothing
DictPop_keep(d, k) == d

\* params.pop(key, False)
DictPop(d, k) == [x \in DOMAIN d \ {k} |-> d[x]]

\* the order in which a dictionary with these keys is iterated
KeyOrder == <<StrV(<<"a">>), StrV(<<"b">>), StrV(<<"=">>), IntV(1)>>
KeysOf(d) == SelectSeq(KeyOrder, LAMBDA k : k \in DOMAIN d)

(***************************************************************************)
(* django.utils.http.urlencode(params, doseq=True).                        *)
(***************************************************************************)
quote_char(c) ==
    IF c = "=" THEN <<"%", "3", "D">>
    ELSE IF c = "(" THEN <<"%", "2", "8">>
    ELSE <<c>>
RECURSIVE quote_plus(_)
quote_plus(s) == IF s = <<>> THEN <<>> ELSE quote_char(Head(s)) \o quote_plus(Tail(s))

\* the k=v items of one key: one per element of a list, one for a scalar
urlencode_key(k, v) ==
    IF v.t = "list"
    THEN [i \in 1..Len(v.l) |-> quote_plus(unicode(k)) \o <<"=">> \o quote_plus(v.l[i])]
    ELSE <<quote_plus(unicode(k)) \o <<"=">> \o quote_plus(unicode(v))>>

RECURSIVE urlencode_items(_, _)
urlencode_items(d, keys) ==
    IF keys = <<>> THEN <<>>
    ELSE urlencode_key(Head(keys), d[Head(keys)]) \o urlencode_items(d, Tail(keys))

RECURSIVE join_amp(_)
join_amp(items) ==
    IF items = <<>> THEN <<>>
    ELSE IF Len(items) = 1 THEN items[1]
    ELSE items[1] \o <<"&">> \o join_amp(Tail(items))

urlencode(d) == join_amp(urlencode_items(d, KeysOf(d)))

(***************************************************************************)
(* The template context.                                                   *)
(***************************************************************************)
\* FilterExpression.resolve(context): a number literal is its value, the
\* empty expression is None, a variable is looked up in the context
resolve(expr, ctx) ==
    IF expr = <<>> THEN NoneV
    ELSE IF \A i \in 1..Len(expr) : expr[i] \in Digits THEN IntV(TextInt(expr))
    ELSE ctx[expr]

\* a test for the missing entry only
request_absent(entry) == entry = "absent"

\* context.get('request', None) followed by "if not request"
request_missing(entry) == entry \in {"absent", "None"}

(***************************************************************************)
(* SetUrlParamNode.render (lines 62-73).                                   *)
(***************************************************************************)
\* params = request.GET: the request's own dictionary
dict_alias(obj) == obj

\* params = dict(request.GET): a new dictionary with the same items
dict_copy(obj) == "params"

\* the for loop over self.changes.items(), lines 67-72
RECURSIVE set_url_param_changes(_, _, _, _)
set_url_param_changes(params, changes, keys, ctx) ==
    IF keys = <<>> THEN params
    ELSE LET key == Head(keys)
             newvalue == resolve(changes[key.s], ctx)
         IN  set_url_param_changes(
                 IF newvalue = StrV(<<>>) \/ newvalue = NoneV
                 THEN DictPop(params, key)
                 ELSE DictSet(params, key, StrV(unicode(newvalue))),
                 changes, Tail(keys), ctx)

\* the keys of self.changes, as dictionary keys, in iteration order
ChangeKeys(changes) == SelectSeq(KeyOrder, LAMBDA k : k.t = "str" /\ k.s \in DOMAIN changes)

\* the whole method: the string returned, the resolve calls made and
\* request.GET afterwards
SetUrlParamNode_render(node, entry, GET, ctx) ==
    IF request_missing(entry)
    THEN [out |-> <<>>, resolves |-> 0, GET |-> GET]
    ELSE LET params == set_url_param_changes(GET, node.changes,
                                              ChangeKeys(node.changes), ctx)
         IN  [out |-> <<"?">> \o urlencode(params),
              resolves |-> Len(ChangeKeys(node.changes)),
              GET |-> IF dict_copy("request.GET") = "request.GET" THEN params ELSE GET]

(***************************************************************************)
(* QuerystringNode.render (lines 114-124).                                 *)
(***************************************************************************)
\* the loop of QuerystringNode.render with set_url_param's removal of a key
\* whose value is empty
RECURSIVE querystring_params_removing(_, _, _)
querystring_params_removing(params, pairs, ctx) ==
    IF pairs = <<>> THEN params
    ELSE LET key == resolve(Head(pairs)[1], ctx)
             value == resolve(Head(pairs)[2], ctx)
         IN  querystring_params_removing(
                 IF key = StrV(<<>>) \/ key = NoneV THEN params
                 ELSE IF value = StrV(<<>>) \/ value = NoneV THEN DictPop(params, key)
                 ELSE DictSet(params, key, value),
                 Tail(pairs), ctx)

\* the for loop over self.params.iteritems(), lines 119-123
RECURSIVE querystring_params(_, _, _)
querystring_params(params, pairs, ctx) ==
    IF pairs = <<>> THEN params
    ELSE LET key == resolve(Head(pairs)[1], ctx)
             value == resolve(Head(pairs)[2], ctx)
         IN  querystring_params(
                 IF key # StrV(<<>>) /\ key # NoneV
                 THEN DictSet(params, key, value)
                 ELSE params,
                 Tail(pairs), ctx)

QuerystringNode_render(node, entry, GET, ctx) ==
    IF request_missing(entry)
    THEN [out |-> <<>>, resolves |-> 0, GET |-> GET]
    ELSE LET params == querystring_params(GET, node.params, ctx)
         IN  [out |-> <<"?">> \o urlencode(params),
              resolves |-> 2 * Len(node.params),
              GET |-> IF dict_copy("request.GET") = "request.GET" THEN params ELSE GET]

(***************************************************************************)
(* Rendering the query-string nodes against one request.                   *)
(***************************************************************************)
\* expressions of the nodes rendered: the variable a and the literal 1
Exprs == {<<"a">>, <<"1">>}
VarNames == {<<"a">>}
Values == {NoneV, StrV(<<>>), StrV(<<"a">>), StrV(<<"=">>)}
ChangeKeyTexts == {<<"a">>, <<"b">>}

\* the key=value pairs of the querystring nodes rendered (1=1 is left out:
\* a literal key and a literal value are in 1=a and a=1)
PairPool == (Exprs \X Exprs) \ {<<<<"1">>, <<"1">>>>}

SetUrlParamNodes ==
    {[kind |-> "node", tag |-> "set_url_param", changes |-> c] :
        c \in UNION {[K -> Exprs] : K \in SUBSET ChangeKeyTexts}}
QuerystringNodes ==
    {[kind |-> "node", tag |-> "querystring", params |-> p] :
        p \in SeqsUpTo(PairPool, MaxPairs)}

\* request.GET of the requests considered
GETs ==
    {EmptyDict,
     [k \in {StrV(<<"a">>)} |-> ListV(<<<<"x">>>>)],
     [k \in {StrV(<<"a">>)} |-> ListV(<<<<"x">>, <<"y">>>>)],
     [k \in {StrV(<<"a">>), StrV(<<"b">>)} |->
         IF k.s = <<"a">> THEN ListV(<<<<"x">>>>) ELSE ListV(<<<<"=">>, <<"y">>>>)]}

NoRender == [node |-> NoNode, out |-> <<>>, resolves |-> 0, again |-> FALSE]
NoFirst == [node |-> NoNode, out |-> <<>>]

RenderSetUrlParam ==
    \E node \in SetUrlParamNodes :
        LET r == SetUrlParamNode_render(node, ctxRequest, request_GET, ctxVars)
        IN  /\ last' = [node |-> node, out |-> r.out, resolves |-> r.resolves,
                        again |-> first # NoFirst]
            /\ first' = IF first = NoFirst THEN [node |-> node, out |-> r.out]
                        ELSE first
            /\ request_GET' = r.GET
            /\ UNCHANGED <<GET0, ctxRequest, ctxVars, compileVars, tableVars>>

RenderQuerystring ==
    \E node \in QuerystringNodes :
        LET r == QuerystringNode_render(node, ctxRequest, request_GET, ctxVars)
        IN  /\ last' = [node |-> node, out |-> r.out, resolves |-> r.resolves,
                        again |-> first # NoFirst]
            /\ first' = IF first = NoFirst THEN [node |-> node, out |-> r.out]
                        ELSE first
            /\ request_GET' = r.GET
            /\ UNCHANGED <<GET0, ctxRequest, ctxVars, compileVars, tableVars>>

(***************************************************************************)
(* RenderTableNode.render (lines 163-193) and SmartRenderTableNode.render  *)
(* (lines 204-246).  template.render(context) is the one call during which *)
(* other code runs with the table changed, so each render is two steps:    *)
(* the call up to "table.request = request", and the template's render     *)
(* with the finally and except clauses after it.                           *)
(***************************************************************************)
TEMPLATE_STRING_IF_INVALID == "TEMPLATE_STRING_IF_INVALID"
Return(v) == [kind |-> "return", val |-> v, exc |-> "none"]
Propagate(e) == [kind |-> "raise", val |-> "none", exc |-> e]
Pending == [kind |-> "pending", val |-> "none", exc |-> "none"]

\* an except clause that never re-raises
render_except_swallow(e, DEBUG) == Return(TEMPLATE_STRING_IF_INVALID)

\* the except clause of lines 189-193 and 242-246
render_except(e, DEBUG) ==
    IF DEBUG THEN Propagate(e) ELSE Return(TEMPLATE_STRING_IF_INVALID)

\* request.GET.get(key, default): QueryDict gives the last value of the list
GET_get(l, default) == IF l = <<>> THEN default ELSE StrV(l[Len(l)])

\* a Table just built (tables.QuerySetTable(queryset), line 208)
NewTable == [order_by |-> NoneV, page |-> NoneV, request |-> FALSE]

\* isinstance(table, tables.Table), after a QuerySet was wrapped or not
is_Table(value, wrapsQuerySet) ==
    value = "Table" \/ (wrapsQuerySet /\ value = "QuerySet")

\* the exception raised before the template is loaded: lines 165-173 and
\* 206-219
checks_exc(value, inContext, wrapsQuerySet) ==
    IF ~is_Table(value, wrapsQuerySet) THEN "ValueError"
    ELSE IF ~inContext THEN "AssertionError"
    ELSE "none"

\* a pagination that ignores the request's page
smart_paginate_first(t, page) == [t EXCEPT !.page = IntV(1)]

\* lines 220-221: table.order_by = ...; table.paginate(page=...), which
\* raises for a page that does not exist
smart_order(t, sort) == [t EXCEPT !.order_by = GET_get(sort, NoneV)]
smart_paginate(t, page) == [t EXCEPT !.page = GET_get(page, IntV(1))]

\* no del in the finally clause
del_request_skip(t) == t

\* table.request = request (lines 185, 237) and del table.request (lines
\* 188, 240)
set_request(t) == [t EXCEPT !.request = TRUE]
del_request(t) == [t EXCEPT !.request = FALSE]

ValueKinds == {"Table", "QuerySet", "Other"}
SortLists == {<<>>, <<<<"n">>>>, <<<<"n">>, <<"m">>>>}
PageLists == {<<>>, <<<<"2">>>>}

NoCall(t) ==
    [node |-> "none", value |-> "Table", inContext |-> FALSE, sort |-> <<>>,
     page |-> <<>>, target |-> "context", pre |-> t, new |-> NewTable,
     err |-> "none", result |-> Pending]

\* the table the call works on
Target == IF call.target = "new" THEN call.new ELSE table

\* the call ends before the template's render with exception e
EndsEarly(c, e, t, n) ==
    /\ call' = [c EXCEPT !.err = e, !.result = render_except(e, debug), !.new = n]
    /\ table' = t
    /\ pc' = "idle"

\* the call reaches template.render(context)
Reaches(c, t, n) ==
    /\ call' = [c EXCEPT !.new = n]
    /\ table' = t
    /\ pc' = "rendering"

RenderTableCall ==
    \E value \in ValueKinds, inContext \in BOOLEAN, loads \in BOOLEAN :
        LET c == [NoCall(table) EXCEPT !.node = "render_table", !.value = value,
                                       !.inContext = inContext]
            e == checks_exc(value, inContext, FALSE)
        IN  /\ pc = "idle"
            /\ IF e # "none" THEN EndsEarly(c, e, table, NewTable)
               ELSE IF ~loads THEN EndsEarly(c, "TemplateDoesNotExist", table, NewTable)
               ELSE Reaches(c, set_request(table), NewTable)
            /\ UNCHANGED <<debug, compileVars, urlVars>>

SmartRenderTableCall ==
    \E value \in ValueKinds, inContext \in BOOLEAN, sort \in SortLists,
       page \in PageLists, paginates \in BOOLEAN, loads \in BOOLEAN :
        LET tgt == IF value = "QuerySet" THEN "new" ELSE "context"
            c == [NoCall(table) EXCEPT !.node = "smart_render_table",
                                       !.value = value, !.inContext = inContext,
                                       !.sort = sort, !.page = page, !.target = tgt]
            e == checks_exc(value, inContext, TRUE)
            t0 == IF tgt = "new" THEN NewTable ELSE table
            t1 == smart_order(t0, sort)
            t2 == smart_paginate(t1, page)
            \* the context's table and the new table, given the target's state
            ctxT(t) == IF tgt = "new" THEN table ELSE t
            newT(t) == IF tgt = "new" THEN t ELSE NewTable
        IN  /\ pc = "idle"
            /\ IF e # "none" THEN EndsEarly(c, e, table, newT(t0))
               ELSE IF ~paginates THEN EndsEarly(c, "Http404", ctxT(t1), newT(t1))
               ELSE IF ~loads
               THEN EndsEarly(c, "TemplateDoesNotExist", ctxT(t2), newT(t2))
               ELSE Reaches(c, ctxT(set_request(t2)), newT(set_request(t2)))
            /\ UNCHANGED <<debug, compileVars, urlVars>>

\* template.render(context) returns or raises; the finally clause deletes
\* the attribute, the except clause handles what was raised
TemplateRender ==
    \E renders \in BOOLEAN :
        /\ pc = "rendering"
        /\ pc' = "idle"
        /\ table' = IF call.target = "new" THEN table ELSE del_request(table)
        /\ call' = [call EXCEPT
                      !.new = IF call.target = "new" THEN del_request(@) ELSE @,
                      !.err = IF renders THEN "none" ELSE "RenderError",
                      !.result = IF renders THEN Return("rendered")
                                 ELSE render_except("RenderError", debug)]
        /\ UNCHANGED <<debug, compileVars, urlVars>>

(***************************************************************************)
(* The specifications.                                                     *)
(***************************************************************************)
CompileIdle == token = [tag |-> "querystring", args |-> <<>>] /\ compiled = NoNode
UrlIdle ==
    /\ request_GET = EmptyDict /\ GET0 = EmptyDict
    /\ ctxRequest = "absent"
    /\ ctxVars = [v \in VarNames |-> NoneV]
    /\ last = NoRender
    /\ first = NoFirst
TableIdle ==
    /\ debug = FALSE /\ table = NewTable /\ call = NoCall(NewTable)
    /\ pc = "idle"

InitCompile ==
    /\ token \in Tokens
    /\ compiled = NoNode
    /\ UrlIdle /\ TableIdle

NextCompile ==
    \/ CompileSetUrlParam
    \/ CompileQuerystring
    \/ CompileRenderTable
    \/ CompileSmartRenderTable

SpecCompile == InitCompile /\ [][NextCompile]_vars

InitUrl ==
    /\ ctxRequest \in {"absent", "None", "request"}
    /\ request_GET \in (IF ctxRequest = "request" THEN GETs ELSE {EmptyDict})
    /\ GET0 = request_GET
    /\ ctxVars \in [VarNames -> Values]
    /\ last = NoRender
    /\ first = NoFirst
    /\ CompileIdle /\ TableIdle

NextUrl ==
    \/ RenderSetUrlParam
    \/ RenderQuerystring

SpecUrl == InitUrl /\ [][NextUrl]_vars

InitTable ==
    /\ debug \in BOOLEAN
    /\ table \in [order_by : {NoneV, StrV(<<"n">>)}, page : {NoneV},
                  request : BOOLEAN]
    /\ call = NoCall(table)
    /\ pc = "idle"
    /\ CompileIdle /\ UrlIdle

NextTable ==
    \/ RenderTableCall
    \/ SmartRenderTableCall
    \/ TemplateRender

SpecTable == InitTable /\ [][NextTable]_vars

Init == InitCompile \/ InitUrl \/ InitTable
Next == NextCompile \/ NextUrl \/ NextTable
Spec == Init /\ [][Next]_vars

(***************************************************************************)
(* Properties of compiling a tag (SpecCompile).                            *)
(***************************************************************************)
\* the key of an argument is the text before its first '=', the value the
\* text after it
HasEq(arg) == \E i \in 1..Len(arg) : arg[i] = "="
FirstEq(arg) == CHOOSE i \in 1..Len(arg) : arg[i] = "=" /\ \A j \in 1..(i - 1) : arg[j] # "="
KeyOf(arg) == SubSeq(arg, 1, FirstEq(arg) - 1)
ValueOf(arg) == SubSeq(arg, FirstEq(arg) + 1, Len(arg))

\* an argument of the form key=value with a non-empty key and a non-empty
\* value: split at its first '=' (so that the key holds no '='), or split
\* at any '='
WellFormedKV(arg) == HasEq(arg) /\ KeyOf(arg) # <<>> /\ ValueOf(arg) # <<>>
SplitsKV(arg) ==
    \E i \in 1..Len(arg) : arg[i] = "=" /\ i > 1 /\ i < Len(arg)

\* the node holds one (key, value) pair per argument, in argument order
OnePairPerArgument(params, args) ==
    /\ Len(params) = Len(args)
    /\ \A i \in 1..Len(args) : params[i][1] \o <<"=">> \o params[i][2] = args[i]

QuerystringCompiled == token.tag = "querystring" /\ compiled # NoNode

\* C2 as stated: compiling a querystring tag raises a template syntax error
\* if and only if some argument is not of the form key=value with a
\* non-empty key and value; otherwise the node holds exactly one pair per
\* argument, in argument order.
C2_Original ==
    QuerystringCompiled =>
        /\ (compiled = Raise(TemplateSyntaxError))
               <=> (\E i \in 1..Len(token.args) : ~WellFormedKV(token.args[i]))
        /\ (\A i \in 1..Len(token.args) : WellFormedKV(token.args[i]))
               => /\ compiled.kind = "node"
                  /\ OnePairPerArgument(compiled.params, token.args)

\* the key and the value of a well-formed argument, split at its last '='
\* that leaves both sides non-empty, are filter expressions
LastInnerEq(arg) ==
    CHOOSE i \in 1..Len(arg) :
        /\ arg[i] = "=" /\ i > 1 /\ i < Len(arg)
        /\ \A j \in (i + 1)..(Len(arg) - 1) : arg[j] # "="
IsExpression(text) == \A i \in 1..Len(text) : text[i] \notin {"=", "("}
CompilesKV(arg) ==
    /\ SplitsKV(arg)
    /\ IsExpression(SubSeq(arg, 1, LastInnerEq(arg) - 1))
    /\ IsExpression(SubSeq(arg, LastInnerEq(arg) + 1, Len(arg)))

\* C2, amended: compiling a querystring tag raises a template syntax error
\* if and only if some argument cannot be split at a '=' into a non-empty
\* key and a non-empty value, or has a key or a value (split at the last
\* such '=') that is no filter expression; when no
\* error is raised the node holds exactly one pair per argument, in
\* argument order.
C2_Amended ==
    QuerystringCompiled =>
        /\ (compiled = Raise(TemplateSyntaxError))
               <=> (\E i \in 1..Len(token.args) : ~CompilesKV(token.args[i]))
        /\ (\A i \in 1..Len(token.args) : CompilesKV(token.args[i]))
               => /\ compiled.kind = "node"
                  /\ OnePairPerArgument(compiled.params, token.args)

\* two well-formed arguments compiled into a node of two pairs
C2_Witness ==
    /\ QuerystringCompiled
    /\ Len(token.args) = 2
    /\ compiled.kind = "node"
    /\ Len(compiled.params) = 2

\* C3: compiling render_table or smart_render_table with the tag name alone
\* raises a template syntax error, and no node is produced.
C3_Claim ==
    (/\ token.tag \in {"render_table", "smart_render_table"}
     /\ token.args = <<>>
     /\ compiled # NoNode)
        => compiled = Raise(TemplateSyntaxError)

\* the key of an argument begins with an identifier
BeginsWithIdentifier(key) == key # <<>> /\ key[1] \in Letters
BadSetUrlParamArg(arg) == ~HasEq(arg) \/ ~BeginsWithIdentifier(KeyOf(arg))

\* C9: compiling a set_url_param tag raises a template syntax error whenever
\* some argument has no '=' or a key that does not begin with an
\* identifier; otherwise it produces a node whose changes map each key to
\* its value expression (the text after the first '='), a later argument
\* with the same key replacing an earlier one.
C9_Claim ==
    (token.tag = "set_url_param" /\ compiled # NoNode) =>
        IF \E i \in 1..Len(token.args) : BadSetUrlParamArg(token.args[i])
        THEN compiled = Raise(TemplateSyntaxError)
        ELSE /\ compiled.kind = "node"
             /\ DOMAIN compiled.changes = {KeyOf(token.args[i]) : i \in 1..Len(token.args)}
             /\ \A i \in 1..Len(token.args) :
                    (\A j \in (i + 1)..Len(token.args) :
                         KeyOf(token.args[j]) # KeyOf(token.args[i]))
                    => compiled.changes[KeyOf(token.args[i])] = ValueOf(token.args[i])

(***************************************************************************)
(* Properties of rendering the query-string nodes (SpecUrl).               *)
(***************************************************************************)
RenderedWithRequest(tag) ==
    last.node # NoNode /\ last.node.tag = tag /\ ctxRequest = "request"

Emptyish(v) == v = StrV(<<>>) \/ v = NoneV

\* the keys of the tag's changes that are removed and those that are set
C4_Removed ==
    {k \in DOMAIN last.node.changes : Emptyish(resolve(last.node.changes[k], ctxVars))}
C4_Set == DOMAIN last.node.changes \ C4_Removed

\* the request's parameters changed as C4 says
C4_Expected ==
    [k \in {x \in DOMAIN GET0 : x.s \notin DOMAIN last.node.changes}
           \cup {StrV(x) : x \in C4_Set} |->
        IF k.s \in C4_Set
        THEN StrV(unicode(resolve(last.node.changes[k.s], ctxVars)))
        ELSE GET0[k]]

\* C4: SetUrlParamNode.render with a request returns "?" followed by the
\* encoding of the request's parameters in which every key of the changes
\* that resolves to "" or None is absent, every other key of the changes
\* maps to the text of its resolved value, and every other parameter keeps
\* its values.
C4_SetUrlParamRender ==
    RenderedWithRequest("set_url_param")
        => last.out = <<"?">> \o urlencode(C4_Expected)

\* a render that removed a parameter of the request, set another key to the
\* text of a number and kept nothing else
C4_Witness ==
    /\ RenderedWithRequest("set_url_param")
    /\ \E k \in C4_Removed : StrV(k) \in DOMAIN GET0
    /\ \E k \in C4_Set : resolve(last.node.changes[k], ctxVars) = IntV(1)
    /\ last.out = <<"?", "b", "=", "1">>

\* the pairs of the tag that set a key: those whose key resolves to
\* neither "" nor None
C5_Sets(i) == ~Emptyish(resolve(last.node.params[i][1], ctxVars))
C5_Keys ==
    {resolve(last.node.params[i][1], ctxVars) :
        i \in {j \in 1..Len(last.node.params) : C5_Sets(j)}}
C5_LastFor(k) ==
    Max({i \in 1..Len(last.node.params) :
            C5_Sets(i) /\ resolve(last.node.params[i][1], ctxVars) = k})

\* the request's parameters updated as C5 says
C5_Expected ==
    [k \in DOMAIN GET0 \cup C5_Keys |->
        IF k \in C5_Keys
        THEN resolve(last.node.params[C5_LastFor(k)][2], ctxVars)
        ELSE GET0[k]]

\* C5: QuerystringNode.render with a request returns "?" followed by the
\* encoding of the request's parameters in which every key that some pair
\* resolves to (neither "" nor None) maps to the resolved value of the last
\* such pair, and every other parameter keeps its values.
C5_QuerystringRender ==
    RenderedWithRequest("querystring")
        => last.out = <<"?">> \o urlencode(C5_Expected)

\* the same key given twice with two values, the last one winning, over a
\* request that already had the key
C5_Witness ==
    /\ RenderedWithRequest("querystring")
    /\ Len(last.node.params) = 2
    /\ C5_Sets(1) /\ C5_Sets(2)
    /\ resolve(last.node.params[1][1], ctxVars) = resolve(last.node.params[2][1], ctxVars)
    /\ resolve(last.node.params[1][2], ctxVars) # resolve(last.node.params[2][2], ctxVars)
    /\ resolve(last.node.params[1][1], ctxVars) \in DOMAIN GET0
    /\ last.out = <<"?", "a", "=", "1", "&", "b", "=", "%", "3", "D", "&", "b", "=", "y">>

\* C7: rendering the query-string nodes never changes the request's
\* parameters, and rendering a node again gives the string its first render
\* gave.
C7_RequestUnchanged ==
    /\ request_GET = GET0
    /\ (last.again /\ last.node = first.node) => last.out = first.out

\* a node that changes the parameters was rendered again
C7_Witness ==
    /\ last.again
    /\ last.node = first.node
    /\ ctxRequest = "request"
    /\ GET0 # EmptyDict
    /\ last.out # <<"?">> \o urlencode(GET0)

\* C10: without a request in the context (absent, or None) the result is
\* the empty string and nothing is resolved; otherwise the result begins
\* with "?", and is exactly "?" when the resulting parameters are empty.
C10_NoRequest ==
    last.node # NoNode =>
        IF ctxRequest \in {"absent", "None"}
        THEN last.out = <<>> /\ last.resolves = 0
        ELSE /\ last.out # <<>> /\ Head(last.out) = "?"
             /\ (last.node.tag = "set_url_param" /\ C4_Expected = EmptyDict)
                    => last.out = <<"?">>
             /\ (last.node.tag = "querystring" /\ C5_Expected = EmptyDict)
                    => last.out = <<"?">>

\* a node with arguments rendered where the context's request is None
C10_Witness ==
    /\ last.node # NoNode
    /\ last.node.tag = "querystring"
    /\ Len(last.node.params) = 2
    /\ ctxRequest = "None"
    /\ last.out = <<>>

(***************************************************************************)
(* Properties of rendering the table nodes (SpecTable).                    *)
(***************************************************************************)
Finished == call.node # "none" /\ pc = "idle"

\* C1: an error raised during a table render is swallowed and the
\* placeholder returned when DEBUG is off; when DEBUG is on the same error
\* propagates and nothing is returned.
C1_RenderErrors ==
    (Finished /\ call.err # "none") =>
        /\ call.err \in {"ValueError", "AssertionError", "Http404",
                         "TemplateDoesNotExist", "RenderError"}
        /\ IF debug
           THEN call.result.kind = "raise" /\ call.result.exc = call.err
           ELSE call.result.kind = "return"
                /\ call.result.val = TEMPLATE_STRING_IF_INVALID

\* with DEBUG on, the error of the template's own render left a smart
\* render
C1_Witness ==
    /\ Finished
    /\ debug
    /\ call.node = "smart_render_table"
    /\ call.err = "RenderError"
    /\ call.result = Propagate("RenderError")

\* C6: a table that had no request attribute when the render was called has
\* one only while the template's render runs; it has none once the render
\* has returned, swallowed an error or propagated one.
C6_RequestTransient ==
    /\ (~call.pre.request /\ table.request)
           => (pc = "rendering" /\ call.target = "context")
    /\ call.new.request => (pc = "rendering" /\ call.target = "new")
    /\ (pc = "rendering" /\ ~call.pre.request) => Target.request

\* the template's render failed with DEBUG on, and the table is left
\* without the attribute
C6_Witness ==
    /\ Finished
    /\ debug
    /\ call.err = "RenderError"
    /\ ~call.pre.request
    /\ ~table.request

\* the request's parameter: the last value given, or the default
C8_Param(l, default) == IF Len(l) = 0 THEN default ELSE StrV(l[Len(l)])

\* C8: SmartRenderTableNode.render has set the table's ordering to the
\* request's sort (None when absent) and its page to the request's page (1
\* when absent) when the template is rendered; when a check fails (no
\* Table, no request) ordering and pagination are unchanged;
\* RenderTableNode.render never changes them.
C8_OrderAndPaginate ==
    /\ (pc = "rendering" /\ call.node = "smart_render_table")
           => /\ Target.order_by = C8_Param(call.sort, NoneV)
              /\ Target.page = C8_Param(call.page, IntV(1))
    /\ call.err \in {"ValueError", "AssertionError"}
           => /\ table.order_by = call.pre.order_by
              /\ table.page = call.pre.page
              /\ call.new = NewTable
    /\ call.node = "render_table"
           => /\ table.order_by = call.pre.order_by
              /\ table.page = call.pre.page

\* the template of a smart render runs on a table ordered and paginated
\* from the request
C8_Witness ==
    /\ pc = "rendering"
    /\ call.node = "smart_render_table"
    /\ call.sort = <<<<"n">>, <<"m">>>>
    /\ call.page = <<<<"2">>>>
    /\ table.order_by = StrV(<<"m">>)
    /\ table.page = StrV(<<"2">>)
    /\ call.pre.order_by # table.order_by

====
